---------------------------- MODULE Spec2Model ----------------------------
(***************************************************************************)
(* A model of the CANSLIM scanner: canslim.py (the batch tool) and         *)
(* canslimprompt.py (the interactive, single-ticker tool).                 *)
(*                                                                         *)
(* Text is a sequence of one-character strings, so that replace(), strip(),*)
(* the substring test and float() are computed character by character.     *)
(* A Python float is modelled by the exact rational it denotes, a record   *)
(* [kind |-> "float", num, den] in lowest terms with den > 0.  None and a  *)
(* raised exception are records of their own kind.                         *)
(***************************************************************************)
EXTENDS Integers, Sequences, FiniteSets, TLC

VARIABLES
    variant,           \* which file runs: "canslim" or "canslimprompt"
    pc,                \* position of the operation in progress
    fetch,             \* fetch_data_with_retry: its loop state and its effects
    page,              \* the markup a successful fetch delivers
    eps_data,          \* the EPS series (an ordered dict 'EPS i' -> text)
    annual_eps_data,   \* the annual EPS series
    quarterly_growth,  \* result of calculate_quarterly_eps_growth
    annual_growth,     \* result of calculate_annual_eps_growth
    an,                \* analyze_stock: its locals, its result, what it caught
    tickers,           \* main: the ticker list read from Symbols.txt
    analysis_results,  \* main: the records appended so far
    evaluated,         \* main: the tickers handed to analyze_stock, in order
    output             \* main: the rows of the final report

vars == <<variant, pc, fetch, page, eps_data, annual_eps_data,
          quarterly_growth, annual_growth, an, tickers, analysis_results,
          evaluated, output>>

\* ------------------------------------------------------------------ bounds

\* Longest EPS series drawn for the growth functions.
MaxSeries == 3
\* Most <td> cells in a row of a table drawn for the extractor.
MaxCells == 3
\* Most rows in a table drawn for the extractor.
MaxRows == 2
\* Most value cells in the EPS row of a page drawn for analyze_stock.
MaxValues == 3
\* Longest ticker list drawn for main.
MaxTickers == 3

\* ------------------------------------------------------- program constants

\* fetch_data_with_retry(url, retries=3, ...)
retries == 3
\* the growth threshold of the CANSLIM criteria
THRESHOLD == 25
\* the least number of <td> cells of a row the extractor looks at
MIN_COLUMNS == 3

Variants == {"canslim", "canslimprompt"}

\* ------------------------------------------------------------------ values

None == [kind |-> "None"]
ValueError == [kind |-> "ValueError"]
Raised == [kind |-> "raised"]
Idle == [kind |-> "idle"]

IsNone(x) == x.kind = "None"
IsFloat(x) == x.kind = "float"

Abs(n) == IF n < 0 THEN -n ELSE n

RECURSIVE GCD(_, _)
GCD(a, b) == IF b = 0 THEN a ELSE GCD(b, a % b)

\* The float n/d (d # 0), in lowest terms.
Float(n, d) ==
    LET g == GCD(Abs(n), Abs(d))
        s == IF d < 0 THEN -1 ELSE 1
    IN [kind |-> "float", num |-> (s * n) \div g, den |-> (s * d) \div g]

FloatSub(x, y) == Float(x.num * y.den - y.num * x.den, x.den * y.den)
FloatMul(x, y) == Float(x.num * y.num, x.den * y.den)
\* y is non-zero wherever the code divides
FloatDiv(x, y) == Float(x.num * y.den, x.den * y.num)
FloatLt(x, y) == x.num * y.den < y.num * x.den
FloatLe(x, y) == x.num * y.den <= y.num * x.den
FloatOfInt(n) == Float(n, 1)

\* -------------------------------------------------------------------- text

Digits == <<"0", "1", "2", "3", "4", "5", "6", "7", "8", "9">>
IsDigit(c) == \E d \in 1..10 : Digits[d] = c
DigitVal(c) == (CHOOSE d \in 1..10 : Digits[d] = c) - 1

\* str.replace(old, '') for a one-character old
replace(s, old) == SelectSeq(s, LAMBDA c : c # old)

\* str.strip(): leading and trailing blanks removed
RECURSIVE lstrip(_)
lstrip(s) == IF s # <<>> /\ Head(s) = " " THEN lstrip(Tail(s)) ELSE s
RECURSIVE rstrip(_)
rstrip(s) ==
    IF s # <<>> /\ s[Len(s)] = " " THEN rstrip(SubSeq(s, 1, Len(s) - 1)) ELSE s
strip(s) == rstrip(lstrip(s))

\* sub in s: s has sub as a contiguous part
Contains(s, sub) ==
    \E i \in 1..(Len(s) - Len(sub) + 1) : SubSeq(s, i, i + Len(sub) - 1) = sub

RECURSIVE DecValue(_)
DecValue(ds) ==
    IF ds = <<>> THEN 0
    ELSE 10 * DecValue(SubSeq(ds, 1, Len(ds) - 1)) + DigitVal(ds[Len(ds)])

RECURSIVE Pow10(_)
Pow10(n) == IF n = 0 THEN 1 ELSE 10 * Pow10(n - 1)

\* float(s) for text over signs, digits and one decimal point: blanks
\* around it are ignored, anything else raises ValueError.
float(s) ==
    LET t == strip(s)
        signed == t # <<>> /\ Head(t) \in {"-", "+"}
        body == IF signed THEN Tail(t) ELSE t
        dots == {i \in 1..Len(body) : body[i] = "."}
        digs == SelectSeq(body, LAMBDA c : c # ".")
        wellformed == /\ Cardinality(dots) <= 1
                      /\ digs # <<>>
                      /\ \A i \in 1..Len(digs) : IsDigit(digs[i])
        frac == IF dots = {} THEN 0 ELSE Len(body) - (CHOOSE i \in dots : TRUE)
        mag == DecValue(digs)
    IN IF ~wellformed THEN ValueError
       ELSE Float(IF signed /\ Head(t) = "-" THEN -mag ELSE mag, Pow10(frac))

\* ------------------------------------------------------ growth calculator

\* An ordered dict {'EPS 1': v1, 'EPS 2': v2, ...} holds the sequence of its
\* items [key |-> i, value |-> vi] in insertion order.
Dict(items) == [kind |-> "dict", items |-> items]
EmptyDict == Dict(<<>>)
\* The dict a row of value cells gives: {'EPS 1': values[1], ...}
DictOf(values) ==
    Dict([i \in 1..Len(values) |-> [key |-> i, value |-> values[i]]])
\* list(d.values())
Values(d) == [i \in 1..Len(d.items) |-> d.items[i].value]
Keys(d) == {d.items[i].key : i \in 1..Len(d.items)}

\* float(text.replace('$', '').replace(',', ''))
ParseEps(text) == float(replace(replace(text, "$"), ","))

\* ((latest - baseline) / baseline) * 100
GrowthFormula(latest, baseline) ==
    FloatMul(FloatDiv(FloatSub(latest, baseline), baseline), FloatOfInt(100))

\* eps_growth without its except clause: the ValueError of float() leaves
\* the function.
eps_growth_no_except(d, need, base) ==
    LET eps_values == Values(d)
    IN IF Len(eps_values) < need THEN None
       ELSE LET latest_eps == ParseEps(eps_values[1])
                baseline_eps == ParseEps(eps_values[base + 1])
            IN IF latest_eps = ValueError \/ baseline_eps = ValueError
               THEN ValueError
               ELSE IF baseline_eps.num = 0 THEN None
               ELSE GrowthFormula(latest_eps, baseline_eps)

\* The body shared by the two growth functions: `need` values are required
\* and the baseline is eps_values[base] (0-based).  Both floats are parsed
\* before the zero test; a ValueError of either lands in the except clause.
eps_growth(d, need, base) ==
    LET eps_values == Values(d)
    IN IF Len(eps_values) < need THEN None
       ELSE LET latest_eps == ParseEps(eps_values[1])
                baseline_eps == ParseEps(eps_values[base + 1])
            IN IF latest_eps = ValueError \/ baseline_eps = ValueError THEN None
               ELSE IF baseline_eps.num = 0 THEN None
               ELSE GrowthFormula(latest_eps, baseline_eps)

calculate_quarterly_eps_growth(d) == eps_growth(d, 2, 1)

\* calculate_annual_eps_growth with the baseline of the quarterly function.
calculate_annual_previous_baseline(d) == eps_growth(d, 3, 1)

calculate_annual_eps_growth(d) == eps_growth(d, 3, 2)

\* ------------------------------------------------------ resilient fetcher

\* What one attempt can meet.  "ua_fault" is get_new_user_agent() raising;
\* canslim.py chooses no client identity, so it cannot happen there.
Failures == {"transport", "timeout", "status"}
Outcomes(v) ==
    Failures \cup {"ok"} \cup (IF v = "canslimprompt" THEN {"ua_fault"} ELSE {})

\* The loop state on entry.  log lists the effects in order ("get" for
\* requests.get, "sleep" for time.sleep(2)); met lists what each attempt met.
FetchStart ==
    [attempt |-> 0, status |-> "running", ret |-> None, log |-> <<>>, met |-> <<>>]

\* fetch_attempt with the return of a successful attempt lost: the loop goes
\* on to the next attempt.
fetch_attempt_no_return(v, f, o) ==
    IF v = "canslimprompt" /\ o = "ua_fault"
    THEN [f EXCEPT !.status = "raised", !.ret = Raised, !.met = Append(@, o)]
    ELSE IF o = "ok"
    THEN [f EXCEPT !.attempt = @ + 1,
                   !.ret = [kind |-> "response", attempt |-> f.attempt + 1],
                   !.log = Append(@, "get"),
                   !.met = Append(@, o)]
    ELSE [f EXCEPT !.attempt = @ + 1,
                   !.log = @ \o <<"get", "sleep">>,
                   !.met = Append(@, o)]

\* One pass of the loop body, the attempt meeting outcome o.
fetch_attempt(v, f, o) ==
    IF v = "canslimprompt" /\ o = "ua_fault"
    THEN \* get_new_user_agent() is called before the try: the fault escapes
         [f EXCEPT !.status = "raised", !.ret = Raised, !.met = Append(@, o)]
    ELSE IF o = "ok"
    THEN [f EXCEPT !.status = "returned",
                   !.ret = [kind |-> "response", attempt |-> f.attempt + 1],
                   !.log = Append(@, "get"),
                   !.met = Append(@, o)]
    ELSE \* except (RequestException, Timeout): print, sleep, next attempt
         [f EXCEPT !.attempt = @ + 1,
                   !.log = @ \o <<"get", "sleep">>,
                   !.met = Append(@, o)]

\* The loop is over: print "All attempts failed", return None.
fetch_exhausted(f) == [f EXCEPT !.status = "returned", !.ret = None]

\* for attempt in range(retries)
LoopContinues(f) == f.attempt < retries

\* The whole call, attempt k meeting script[k].
RECURSIVE fetch_loop(_, _, _)
fetch_loop(v, f, script) ==
    IF f.status # "running" THEN f
    ELSE IF LoopContinues(f)
    THEN fetch_loop(v, fetch_attempt(v, f, script[f.attempt + 1]), script)
    ELSE fetch_exhausted(f)

fetch_data_with_retry(v, script) == fetch_loop(v, FetchStart, script)

Count(s, x) == Cardinality({i \in 1..Len(s) : s[i] = x})

\* --- the fetcher, one attempt at a time

InitFetch ==
    /\ variant \in Variants
    /\ pc = "fetch"
    /\ fetch = FetchStart
    /\ page = Idle /\ eps_data = Idle /\ annual_eps_data = Idle
    /\ quarterly_growth = Idle /\ annual_growth = Idle /\ an = Idle
    /\ tickers = <<>> /\ analysis_results = <<>> /\ evaluated = <<>>
    /\ output = Idle

FetchAttempt ==
    /\ pc = "fetch"
    /\ fetch.status = "running"
    /\ LoopContinues(fetch)
    /\ \E o \in Outcomes(variant) : fetch' = fetch_attempt(variant, fetch, o)
    /\ UNCHANGED <<variant, pc, page, eps_data, annual_eps_data,
                   quarterly_growth, annual_growth, an, tickers,
                   analysis_results, evaluated, output>>

FetchExhausted ==
    /\ pc = "fetch"
    /\ fetch.status = "running"
    /\ ~LoopContinues(fetch)
    /\ fetch' = fetch_exhausted(fetch)
    /\ UNCHANGED <<variant, pc, page, eps_data, annual_eps_data,
                   quarterly_growth, annual_growth, an, tickers,
                   analysis_results, evaluated, output>>

NextFetch == FetchAttempt \/ FetchExhausted

SpecFetch == InitFetch /\ [][NextFetch]_vars

\* ------------------------------------------------------ tabular extractor

\* A page is what BeautifulSoup finds in it: whether there is a <table>, and
\* for each <tr> of the first table the texts of its <td> cells.
NoTablePage == [has_table |-> FALSE, rows |-> <<>>]
TablePage(rows) == [has_table |-> TRUE, rows |-> rows]

EPS == <<"E", "P", "S">>

\* scan_rows with the break lost: the last matching row wins.
RECURSIVE scan_rows_no_break(_, _)
scan_rows_no_break(rows, r) ==
    IF r > Len(rows) THEN EmptyDict
    ELSE LET columns == rows[r]
             later == scan_rows_no_break(rows, r + 1)
         IN IF Len(columns) < MIN_COLUMNS THEN later
            ELSE IF Contains(strip(columns[1]), EPS) /\ later = EmptyDict
            THEN DictOf([i \in 1..(Len(columns) - 1) |-> strip(columns[i + 1])])
            ELSE later

\* for row in rows: ... (the scan from row r on)
RECURSIVE scan_rows(_, _)
scan_rows(rows, r) ==
    IF r > Len(rows) THEN EmptyDict
    ELSE LET columns == rows[r]
         IN IF Len(columns) < MIN_COLUMNS THEN scan_rows(rows, r + 1)
            ELSE IF Contains(strip(columns[1]), EPS)
            THEN \* eps_data[f'EPS {i}'] = columns[i].text.strip(); break
                 DictOf([i \in 1..(Len(columns) - 1) |-> strip(columns[i + 1])])
            ELSE scan_rows(rows, r + 1)

\* fetch_eps_data and fetch_annual_eps_data differ in the URL alone.  The
\* fetch meets `script`, and delivers pg when it succeeds.
extract_eps(v, script, pg) ==
    LET response == fetch_data_with_retry(v, script)
    IN IF response.status = "raised" THEN Raised
       ELSE IF IsNone(response.ret) THEN EmptyDict
       ELSE IF ~pg.has_table THEN EmptyDict
       ELSE scan_rows(pg.rows, 1)

fetch_eps_data(v, script, pg) == extract_eps(v, script, pg)

fetch_annual_eps_data(v, script, pg) == extract_eps(v, script, pg)

\* --- inputs

\* All sequences over S of length n, and of length at most n.
RECURSIVE SeqsOfLen(_, _)
SeqsOfLen(S, n) ==
    IF n = 0 THEN {<<>>}
    ELSE {Append(s, x) : s \in SeqsOfLen(S, n - 1), x \in S}
SeqsUpTo(S, n) == UNION {SeqsOfLen(S, k) : k \in 0..n}

\* What the fetches of one URL meet, attempt by attempt.
FetchScripts(v) ==
    {<<"ok", "ok", "ok">>,
     <<"status", "transport", "ok">>,
     <<"transport", "timeout", "status">>}
    \cup (IF v = "canslimprompt" THEN {<<"timeout", "ua_fault", "ok">>} ELSE {})

\* Cell texts of EPS values.
GrowthCells ==
    {<<"$", "2", ".", "0", "0">>,
     <<"$", "1", ".", "0", "0">>,
     <<"$", "1", ".", "2", "5">>,
     <<"$", "0", ".", "0", "0">>,
     <<"-", "0", ".", "5", "0">>,
     <<"$", "1", ",", "0", "0", "0">>,
     <<"N", "/", "A">>}

\* First-cell texts: one that contains "EPS" and one that does not.
LabelCells ==
    {<<" ", "E", "P", "S", " ", "(", "B", ")", " ">>,
     <<"E", "P", " ", "R", "e", "v">>}
\* Value cells of the extractor's tables, one with blanks around it.
ValueCells == {<<" ", "$", "1", ".", "0", "0", " ">>, <<"2">>}

\* Rows of at most MaxCells cells: none (a header row of <th>), or a label
\* followed by values.
ExtractRows ==
    {<<>>} \cup {<<l>> \o vs : l \in LabelCells,
                               vs \in SeqsUpTo(ValueCells, MaxCells - 1)}
ExtractPages ==
    {NoTablePage} \cup {TablePage(rs) : rs \in SeqsUpTo(ExtractRows, MaxRows)}

\* --- the growth functions applied to a drawn series

InitGrowth ==
    /\ variant \in Variants
    /\ pc = "growth"
    /\ eps_data \in {DictOf(s) : s \in SeqsUpTo(GrowthCells, MaxSeries)}
    /\ annual_eps_data = eps_data
    /\ quarterly_growth = Idle /\ annual_growth = Idle
    /\ fetch = Idle /\ page = Idle /\ an = Idle
    /\ tickers = <<>> /\ analysis_results = <<>> /\ evaluated = <<>>
    /\ output = Idle

CalcQuarterly ==
    /\ pc = "growth"
    /\ quarterly_growth = Idle
    /\ quarterly_growth' = calculate_quarterly_eps_growth(eps_data)
    /\ UNCHANGED <<variant, pc, fetch, page, eps_data, annual_eps_data,
                   annual_growth, an, tickers, analysis_results, evaluated,
                   output>>

CalcAnnual ==
    /\ pc = "growth"
    /\ annual_growth = Idle
    /\ annual_growth' = calculate_annual_eps_growth(annual_eps_data)
    /\ UNCHANGED <<variant, pc, fetch, page, eps_data, annual_eps_data,
                   quarterly_growth, an, tickers, analysis_results, evaluated,
                   output>>

NextGrowth == CalcQuarterly \/ CalcAnnual

SpecGrowth == InitGrowth /\ [][NextGrowth]_vars

\* --- the extractor applied to a drawn page: one call of fetch_eps_data or
\* of fetch_annual_eps_data

InitExtract ==
    /\ variant \in Variants
    /\ pc \in {"fetch_eps_data", "fetch_annual_eps_data"}
    /\ page \in ExtractPages
    /\ eps_data = Idle /\ annual_eps_data = Idle
    /\ quarterly_growth = Idle /\ annual_growth = Idle
    /\ fetch = Idle /\ an = Idle
    /\ tickers = <<>> /\ analysis_results = <<>> /\ evaluated = <<>>
    /\ output = Idle

ExtractQuarterly ==
    /\ pc = "fetch_eps_data"
    /\ pc' = "extracted"
    /\ \E script \in FetchScripts(variant) :
          /\ fetch' = fetch_data_with_retry(variant, script)
          /\ eps_data' = fetch_eps_data(variant, script, page)
    /\ UNCHANGED <<variant, page, annual_eps_data, quarterly_growth,
                   annual_growth, an, tickers, analysis_results, evaluated,
                   output>>

ExtractAnnual ==
    /\ pc = "fetch_annual_eps_data"
    /\ pc' = "extracted"
    /\ \E script \in FetchScripts(variant) :
          /\ fetch' = fetch_data_with_retry(variant, script)
          /\ annual_eps_data' = fetch_annual_eps_data(variant, script, page)
    /\ UNCHANGED <<variant, page, eps_data, quarterly_growth,
                   annual_growth, an, tickers, analysis_results, evaluated,
                   output>>

NextExtract == ExtractQuarterly \/ ExtractAnnual

SpecExtract == InitExtract /\ [][NextExtract]_vars

\* ------------------------------------------------------ criteria evaluator

\* What yf.Ticker(ticker).info gives: the lookup raises, or it gives a record
\* whose price and market cap format, or one whose currentPrice is None, on
\* which format_price raises TypeError.
Quotes == {"raises", "valid", "price_none"}

\* quarterly_growth is None or quarterly_growth < 25     (canslim.py)
below_threshold(g) == IsNone(g) \/ FloatLt(g, FloatOfInt(THRESHOLD))
\* quarterly_growth is None or quarterly_growth <= 25    (canslimprompt.py)
not_above_threshold(g) == IsNone(g) \/ FloatLe(g, FloatOfInt(THRESHOLD))

fails_criterion(v, g) ==
    IF v = "canslim" THEN below_threshold(g) ELSE not_above_threshold(g)

\* f"{x}": str(None) is the text None; str of a float shows its value.
NoneText == <<"N", "o", "n", "e">>
NAText == <<"N", "/", "A">>
Text(chars) == [kind |-> "text", chars |-> chars]
format_plain(x) ==
    IF IsNone(x) THEN Text(NoneText)
    ELSE [kind |-> "repr", num |-> x.num, den |-> x.den]

\* f"{x:.2f}": the value in hundredths, rounded to nearest, ties to even.
Round2(x) ==
    LET n == x.num * 100
        q == n \div x.den
        r == n % x.den
    IN IF 2 * r > x.den \/ (2 * r = x.den /\ q % 2 = 1) THEN q + 1 ELSE q
\* f"{x:.2f}%" if x is not None else 'N/A'
format_pct(x) ==
    IF IsNone(x) THEN Text(NAText) ELSE [kind |-> "fixed2", hundredths |-> Round2(x)]

\* One line of the summary: f"- Meets ... criteria (> 25%): {growth}%\n" or
\* f"- Does not meet ... criteria (<= 25%): {growth}%\n".
summary_line(criterion, g) ==
    [criterion |-> criterion,
     verdict |-> IF not_above_threshold(g) THEN "Does not meet" ELSE "Meets",
     shown |-> format_plain(g)]

\* The summary text of canslimprompt.py: its two criterion lines and the
\* closing sentence.
build_summary(qg, ag) ==
    LET meets_criteria == ~not_above_threshold(qg) /\ ~not_above_threshold(ag)
    IN [lines |-> <<summary_line("quarterly", qg), summary_line("annual", ag)>>,
        closing |-> IF meets_criteria
                    THEN "This stock meets the CANSLIM criteria."
                    ELSE "This stock does not meet the CANSLIM criteria."]

\* The record analyze_stock returns.  The display fields of the quote are
\* left out; canslim.py's record has no Summary.
build_record(v, a) ==
    [kind |-> "record",
     Ticker |-> a.ticker,
     quarterly_pct |-> format_pct(a.quarterly_growth),
     annual_pct |-> format_pct(a.annual_growth),
     eps_data |-> a.eps_data,
     Summary |-> IF v = "canslimprompt"
                 THEN build_summary(a.quarterly_growth, a.annual_growth)
                 ELSE Idle]

\* --- analyze_stock, call by call.  stage is the position in the try block;
\* "except" is an exception on its way to the handler.

AnStart(ticker) ==
    [stage |-> "stock_info", ticker |-> ticker, stock_info |-> Idle,
     eps_data |-> Idle, annual_eps_data |-> Idle,
     quarterly_growth |-> Idle, annual_growth |-> Idle,
     result |-> Idle, caught |-> FALSE]

\* stock = yf.Ticker(ticker); stock_info = stock.info
an_stock_info(a, quote) ==
    IF quote = "raises" THEN [a EXCEPT !.stage = "except"]
    ELSE [a EXCEPT !.stock_info = quote, !.stage = "fetch_eps_data"]

\* eps_data = fetch_eps_data(ticker)
an_fetch_eps(v, a, script, pg) ==
    LET d == fetch_eps_data(v, script, pg)
    IN IF d = Raised THEN [a EXCEPT !.stage = "except"]
       ELSE [a EXCEPT !.eps_data = d, !.stage = "fetch_annual_eps_data"]

\* annual_eps_data = fetch_annual_eps_data(ticker)
an_fetch_annual(v, a, script, pg) ==
    LET d == fetch_annual_eps_data(v, script, pg)
    IN IF d = Raised THEN [a EXCEPT !.stage = "except"]
       ELSE [a EXCEPT !.annual_eps_data = d, !.stage = "calculate_quarterly"]

\* quarterly_growth = calculate_quarterly_eps_growth(eps_data)
an_calc_quarterly(a) ==
    [a EXCEPT !.quarterly_growth = calculate_quarterly_eps_growth(a.eps_data),
              !.stage = "calculate_annual"]

\* annual_growth = calculate_annual_eps_growth(annual_eps_data)
an_calc_annual(a) ==
    [a EXCEPT !.annual_growth = calculate_annual_eps_growth(a.annual_eps_data),
              !.stage = "criteria"]

\* an_criteria with canslim.py's two early returns lost.
an_criteria_no_screen(v, a) ==
    IF a.stock_info = "price_none" THEN [a EXCEPT !.stage = "except"]
    ELSE [a EXCEPT !.result = build_record(v, a), !.stage = "done"]

\* "Apply CANSLIM criteria" to the return statement.  canslim.py returns
\* None when a criterion fails; canslimprompt.py only notes it in the
\* summary.  Building the record formats the price, which raises on None.
an_criteria(v, a) ==
    IF v = "canslim" /\ (\/ fails_criterion(v, a.quarterly_growth)
                         \/ fails_criterion(v, a.annual_growth))
    THEN [a EXCEPT !.result = None, !.stage = "done"]
    ELSE IF a.stock_info = "price_none" THEN [a EXCEPT !.stage = "except"]
    ELSE [a EXCEPT !.result = build_record(v, a), !.stage = "done"]

\* an_except with the handler lost: the exception leaves analyze_stock.
an_except_missing(a) == [a EXCEPT !.stage = "escaped"]

\* except Exception as e: print(...); return None
an_except(a) == [a EXCEPT !.result = None, !.caught = TRUE, !.stage = "done"]

\* A ticker as the program meets it: its symbol, its quote, and for each of
\* its two URLs what the fetch meets and the page it delivers.
an_step(v, a, t) ==
    CASE a.stage = "stock_info" -> an_stock_info(a, t.quote)
      [] a.stage = "fetch_eps_data" -> an_fetch_eps(v, a, t.qScript, t.qPage)
      [] a.stage = "fetch_annual_eps_data" ->
             an_fetch_annual(v, a, t.aScript, t.aPage)
      [] a.stage = "calculate_quarterly" -> an_calc_quarterly(a)
      [] a.stage = "calculate_annual" -> an_calc_annual(a)
      [] a.stage = "criteria" -> an_criteria(v, a)
      [] a.stage = "except" -> an_except(a)

\* The call is over when it has returned ("done") or let an exception
\* through ("escaped").
AnOver(a) == a.stage \in {"done", "escaped"}

RECURSIVE an_run(_, _, _)
an_run(v, a, t) == IF AnOver(a) THEN a ELSE an_run(v, an_step(v, a, t), t)

analyze_stock(v, t) == an_run(v, AnStart(t.name), t)

\* --- inputs

AnalyzeCells ==
    {<<"$", "2", ".", "0", "0">>,
     <<"$", "1", ".", "0", "0">>,
     <<"$", "1", ".", "2", "5">>}

EpsLabel == <<"E", "P", "S", " ", "(", "B", ")">>
RevLabel == <<"R", "e", "v">>
\* A table of a header row, and an EPS row of the given value cells.
EpsPage(values) == TablePage(<< <<>>, <<EpsLabel>> \o values >>)
\* A table with no EPS row.
NoEpsPage == TablePage(<< <<>>, <<RevLabel, <<"9">>, <<"8">>, <<"7">> >> >>)

AnalyzePages ==
    {NoTablePage, NoEpsPage}
    \cup {EpsPage(vs) : vs \in SeqsUpTo(AnalyzeCells, MaxValues)}

\* --- analyze_stock on one drawn ticker

InitAnalyze ==
    /\ variant \in Variants
    /\ pc = "analyze_stock"
    /\ an = AnStart("T")
    /\ fetch = Idle /\ page = Idle
    /\ eps_data = Idle /\ annual_eps_data = Idle
    /\ quarterly_growth = Idle /\ annual_growth = Idle
    /\ tickers = <<>> /\ analysis_results = <<>> /\ evaluated = <<>>
    /\ output = Idle

AnalyzeRest ==
    UNCHANGED <<variant, pc, fetch, page, eps_data, annual_eps_data,
                quarterly_growth, annual_growth, tickers, analysis_results,
                evaluated, output>>

AnalyzeStockInfo ==
    /\ pc = "analyze_stock" /\ an.stage = "stock_info"
    /\ \E quote \in Quotes : an' = an_stock_info(an, quote)
    /\ AnalyzeRest

AnalyzeFetchEps ==
    /\ pc = "analyze_stock" /\ an.stage = "fetch_eps_data"
    /\ \E script \in FetchScripts(variant), pg \in AnalyzePages :
          an' = an_fetch_eps(variant, an, script, pg)
    /\ AnalyzeRest

AnalyzeFetchAnnual ==
    /\ pc = "analyze_stock" /\ an.stage = "fetch_annual_eps_data"
    /\ \E script \in FetchScripts(variant), pg \in AnalyzePages :
          an' = an_fetch_annual(variant, an, script, pg)
    /\ AnalyzeRest

AnalyzeCalcQuarterly ==
    /\ pc = "analyze_stock" /\ an.stage = "calculate_quarterly"
    /\ an' = an_calc_quarterly(an)
    /\ AnalyzeRest

AnalyzeCalcAnnual ==
    /\ pc = "analyze_stock" /\ an.stage = "calculate_annual"
    /\ an' = an_calc_annual(an)
    /\ AnalyzeRest

AnalyzeCriteria ==
    /\ pc = "analyze_stock" /\ an.stage = "criteria"
    /\ an' = an_criteria(variant, an)
    /\ AnalyzeRest

AnalyzeExcept ==
    /\ pc = "analyze_stock" /\ an.stage = "except"
    /\ an' = an_except(an)
    /\ AnalyzeRest

NextAnalyze ==
    \/ AnalyzeStockInfo
    \/ AnalyzeFetchEps
    \/ AnalyzeFetchAnnual
    \/ AnalyzeCalcQuarterly
    \/ AnalyzeCalcAnnual
    \/ AnalyzeCriteria
    \/ AnalyzeExcept

SpecAnalyze == InitAnalyze /\ [][NextAnalyze]_vars

\* ------------------------------------------------------------ batch driver

\* result = analyze_stock(ticker); if result: analysis_results.append(result)
\* (None is falsy, a record is a non-empty dict).
main_collect(results, a) ==
    IF a.result.kind = "record" THEN Append(results, a.result) ELSE results

\* df = pd.DataFrame(analysis_results); df.dropna(subset=eps_columns):
\* the frame has every 'EPS i' column of any record, a record without one of
\* them holds NaN there, and its row is dropped.
report_rows(results) ==
    LET eps_columns == UNION {Keys(results[i].eps_data) : i \in 1..Len(results)}
    IN SelectSeq(results, LAMBDA r : eps_columns \subseteq Keys(r.eps_data))

\* --- inputs

AllOk == <<"ok", "ok", "ok">>
ThirdOk == <<"status", "transport", "ok">>
Exhausted == <<"transport", "timeout", "status">>
Two == <<"$", "2", ".", "0", "0">>
One == <<"$", "1", ".", "0", "0">>
OneQuarter == <<"$", "1", ".", "2", "5">>

Ticker(name, quote, qScript, qPage, aScript, aPage) ==
    [name |-> name, quote |-> quote, qScript |-> qScript, qPage |-> qPage,
     aScript |-> aScript, aPage |-> aPage]

\* Two tickers that pass (with three and with two quarterly values), one
\* that is evaluated and fails the criteria, and four with a fault each.
TickerProfiles ==
    {Ticker("AAA", "valid", AllOk, EpsPage(<<Two, One, One>>),
            AllOk, EpsPage(<<Two, OneQuarter, One>>)),
     Ticker("BBB", "valid", ThirdOk, EpsPage(<<Two, One>>),
            AllOk, EpsPage(<<Two, One, One>>)),
     Ticker("CCC", "valid", AllOk, EpsPage(<<One, One, One>>),
            AllOk, EpsPage(<<Two, One, One>>)),
     Ticker("DDD", "valid", Exhausted, EpsPage(<<Two, One, One>>),
            Exhausted, EpsPage(<<Two, One, One>>)),
     Ticker("EEE", "valid", AllOk, NoTablePage,
            AllOk, EpsPage(<<Two, One, One>>)),
     Ticker("FFF", "raises", AllOk, EpsPage(<<Two, One, One>>),
            AllOk, EpsPage(<<Two, One, One>>)),
     Ticker("GGG", "valid", AllOk, EpsPage(<<Two, One, One>>),
            AllOk, NoEpsPage)}

\* --- main of canslim.py on a drawn ticker list

InitMain ==
    /\ variant = "canslim"
    /\ pc = "main_loop"
    /\ tickers \in SeqsUpTo(TickerProfiles, MaxTickers)
    /\ analysis_results = <<>>
    /\ evaluated = <<>>
    /\ output = Idle
    /\ an = Idle /\ fetch = Idle /\ page = Idle
    /\ eps_data = Idle /\ annual_eps_data = Idle
    /\ quarterly_growth = Idle /\ annual_growth = Idle

\* One pass of "for ticker in tickers".  An exception that analyze_stock
\* lets through ends main.
MainIter ==
    /\ pc = "main_loop"
    /\ Len(evaluated) < Len(tickers)
    /\ LET ticker == tickers[Len(evaluated) + 1]
           a == analyze_stock(variant, ticker)
       IN /\ evaluated' = Append(evaluated, ticker)
          /\ an' = a
          /\ IF a.stage = "escaped"
             THEN /\ pc' = "aborted"
                  /\ UNCHANGED analysis_results
             ELSE /\ pc' = pc
                  /\ analysis_results' = main_collect(analysis_results, a)
    /\ UNCHANGED <<variant, fetch, page, eps_data, annual_eps_data,
                   quarterly_growth, annual_growth, tickers, output>>

\* After the loop: the frame, dropna, the report.
MainReport ==
    /\ pc = "main_loop"
    /\ Len(evaluated) = Len(tickers)
    /\ output' = report_rows(analysis_results)
    /\ pc' = "main_done"
    /\ UNCHANGED <<variant, fetch, page, eps_data, annual_eps_data,
                   quarterly_growth, annual_growth, an, tickers,
                   analysis_results, evaluated>>

NextMain == MainIter \/ MainReport

SpecMain == InitMain /\ [][NextMain]_vars

\* ------------------------------------------------------------- the program

Init == InitFetch \/ InitGrowth \/ InitExtract \/ InitAnalyze \/ InitMain

Next == NextFetch \/ NextGrowth \/ NextExtract \/ NextAnalyze \/ NextMain

Spec == Init /\ [][Next]_vars

\* ------------------------------------------------- properties: the fetcher

FetchOver == pc = "fetch" /\ fetch.status # "running"
NoAttemptSucceeded == \A k \in 1..Len(fetch.met) : fetch.met[k] # "ok"

\* C2: a fetch issues at most 3 requests; an attempt that succeeds is the
\* last one, its response is what the function returns, and every request
\* of the fetch was issued up to and including that attempt.
C2_AtMostThreeRequestsFirstSuccessReturned ==
    pc = "fetch" =>
        /\ Count(fetch.log, "get") <= 3
        /\ \A k \in 1..Len(fetch.met) :
              fetch.met[k] = "ok" =>
                  /\ k = Len(fetch.met)
                  /\ fetch.status = "returned"
                  /\ fetch.ret = [kind |-> "response", attempt |-> k]
                  /\ Count(fetch.log, "get") = k
                  /\ fetch.log[Len(fetch.log)] = "get"

\* C2 witness: two failed attempts, then the third succeeds and is returned.
C2_ThirdAttemptReturned ==
    /\ pc = "fetch"
    /\ fetch.status = "returned"
    /\ fetch.ret = [kind |-> "response", attempt |-> 3]
    /\ Count(fetch.log, "get") = 3

\* C3: a fetch none of whose attempts succeeds ends by returning None,
\* whatever each attempt met; no exception leaves the function.
C3_FailuresEndInNone ==
    (FetchOver /\ NoAttemptSucceeded) =>
        (fetch.status = "returned" /\ IsNone(fetch.ret))

\* C10: when the fetch has returned, no pause is the last thing it did, and
\* a fetch whose 3 attempts all failed has paused exactly twice.
C10_PausesOnlyBetweenAttempts ==
    (pc = "fetch" /\ fetch.status = "returned") =>
        /\ fetch.log[Len(fetch.log)] # "sleep"
        /\ IsNone(fetch.ret) => Count(fetch.log, "sleep") = 2

\* --------------------------------------- properties: the growth functions

\* What the drawn cell texts denote, in hundredths; N/A denotes no number.
NotNumeric(cell) == cell = <<"N", "/", "A">>
Hundredths(cell) ==
    CASE cell = <<"$", "2", ".", "0", "0">> -> 200
      [] cell = <<"$", "1", ".", "0", "0">> -> 100
      [] cell = <<"$", "1", ".", "2", "5">> -> 125
      [] cell = <<"$", "0", ".", "0", "0">> -> 0
      [] cell = <<"-", "0", ".", "5", "0">> -> -50
      [] cell = <<"$", "1", ",", "0", "0", "0">> -> 100000

\* The series has `need` values, and its latest and its value at position
\* base + 1 are numbers, the second of them not zero.
Computable(series, need, base) ==
    /\ Len(series) >= need
    /\ ~NotNumeric(series[1]) /\ ~NotNumeric(series[base + 1])
    /\ Hundredths(series[base + 1]) # 0

\* g is the float (latest - baseline) / baseline * 100.
IsGrowthOf(g, latest, baseline) ==
    /\ IsFloat(g)
    /\ g.den > 0
    /\ g.num * Hundredths(baseline) =
           (Hundredths(latest) - Hundredths(baseline)) * 100 * g.den

GrowthApplied == pc = "growth"
Series == Values(eps_data)

\* C6: each growth function gives None, and raises nothing, on a series
\* that is too short (under 2 values for quarterly, under 3 for annual),
\* whose baseline is zero, or whose latest or baseline cell is no number.
C6_NoneWhenShortZeroOrNotNumeric ==
    GrowthApplied =>
        /\ (quarterly_growth # Idle /\ ~Computable(Series, 2, 1))
               => IsNone(quarterly_growth)
        /\ (annual_growth # Idle /\ ~Computable(Series, 3, 2))
               => IsNone(annual_growth)
        /\ quarterly_growth.kind \in {"idle", "None", "float"}
        /\ annual_growth.kind \in {"idle", "None", "float"}

\* C6 witness: a three-value series with a number over a zero baseline at
\* position 1 and a cell that is no number at position 2; both are None.
C6_ZeroAndNotNumericSeen ==
    /\ GrowthApplied
    /\ Len(Series) = 3
    /\ ~NotNumeric(Series[1]) /\ Hundredths(Series[1]) # 0
    /\ ~NotNumeric(Series[2]) /\ Hundredths(Series[2]) = 0
    /\ NotNumeric(Series[3])
    /\ IsNone(quarterly_growth) /\ IsNone(annual_growth)

\* C7: on a series whose cells are numbers and whose baseline is not zero,
\* quarterly growth is (latest - baseline) / baseline * 100 with the
\* baseline at position 1, and annual growth the same with the baseline at
\* position 2; ["$2.00","$1.00"] gives 100, ["$1.25","$1.00","$1.00"] gives
\* annual 25, and equal latest and baseline give the float 0, not None.
C7_GrowthFormulaAndBaselines ==
    GrowthApplied =>
        /\ (quarterly_growth # Idle /\ Computable(Series, 2, 1))
               => IsGrowthOf(quarterly_growth, Series[1], Series[2])
        /\ (annual_growth # Idle /\ Computable(Series, 3, 2))
               => IsGrowthOf(annual_growth, Series[1], Series[3])
        /\ (quarterly_growth # Idle
               /\ Series = << <<"$", "2", ".", "0", "0">>,
                              <<"$", "1", ".", "0", "0">> >>)
               => quarterly_growth = [kind |-> "float", num |-> 100, den |-> 1]
        /\ (annual_growth # Idle
               /\ Series = << <<"$", "1", ".", "2", "5">>,
                              <<"$", "1", ".", "0", "0">>,
                              <<"$", "1", ".", "0", "0">> >>)
               => annual_growth = [kind |-> "float", num |-> 25, den |-> 1]
        /\ (quarterly_growth # Idle /\ Computable(Series, 2, 1)
               /\ Hundredths(Series[1]) = Hundredths(Series[2]))
               => quarterly_growth = [kind |-> "float", num |-> 0, den |-> 1]

\* C7 witness: ["$1.25","$2.00","$1.00"]: annual growth is 25 against
\* position 2 while quarterly growth, against position 1, is negative.
C7_AnnualUsesPositionTwo ==
    /\ GrowthApplied
    /\ Series = << <<"$", "1", ".", "2", "5">>,
                   <<"$", "2", ".", "0", "0">>,
                   <<"$", "1", ".", "0", "0">> >>
    /\ annual_growth = [kind |-> "float", num |-> 25, den |-> 1]
    /\ IsFloat(quarterly_growth) /\ quarterly_growth.num < 0

\* ------------------------------------------- properties: the extractor

\* The rows of at least minCells cells whose first cell's text contains
\* "EPS", and the series the first of them gives.
EpsRows(rows, minCells) ==
    {r \in 1..Len(rows) :
        Len(rows[r]) >= minCells /\ Contains(rows[r][1], EPS)}
FirstOf(S) == CHOOSE r \in S : \A q \in S : r <= q
SeriesOfRow(row) == DictOf([i \in 1..(Len(row) - 1) |-> strip(row[i + 1])])
SeriesOfFirst(rows, minCells) ==
    IF EpsRows(rows, minCells) = {} THEN EmptyDict
    ELSE SeriesOfRow(rows[FirstOf(EpsRows(rows, minCells))])

\* The extractor has run, and what it returned.
Extracted == pc = "extracted"
Extraction == IF eps_data # Idle THEN eps_data ELSE annual_eps_data
PageDelivered == fetch.status = "returned" /\ fetch.ret.kind = "response"

\* C8, as claimed: the extractor returns the series of the first row whose
\* first cell contains "EPS", whatever the number of its cells, and the
\* empty series when there is no table or no such row.
C8_FirstEpsRowOfAnyWidth ==
    (Extracted /\ PageDelivered) =>
        Extraction = IF page.has_table THEN SeriesOfFirst(page.rows, 1)
                     ELSE EmptyDict

\* C8, amended: the extractor returns the series of the first row that has
\* at least 3 cells and whose first cell contains "EPS", keyed 'EPS 1',
\* 'EPS 2', ... in column order, later rows ignored; it returns the empty
\* series, raising nothing, when there is no table or no such row.
C8_FirstEpsRowOfThreeCells ==
    (Extracted /\ PageDelivered) =>
        Extraction = IF page.has_table THEN SeriesOfFirst(page.rows, 3)
                     ELSE EmptyDict

\* C8 witness: the first EPS row has 2 cells, a later one has 3, and the
\* series returned is the later row's.
C8_ShortEpsRowPassedOver ==
    /\ Extracted /\ PageDelivered
    /\ page.has_table
    /\ Len(page.rows) = 2
    /\ EpsRows(page.rows, 1) = {1, 2}
    /\ Len(page.rows[1]) = 2
    /\ Len(page.rows[2]) = 3
    /\ Extraction = SeriesOfRow(page.rows[2])

\* --------------------------------------------- properties: analyze_stock

Analyzed == pc = "analyze_stock" /\ an.stage = "done"

TwentyFive == [kind |-> "float", num |-> 25, den |-> 1]
Above25(g) == IsFloat(g) /\ FloatLt(TwentyFive, g)
Below25(g) == IsFloat(g) /\ FloatLt(g, TwentyFive)

\* The ticker passes: canslim.py returns a record for it; the summary of
\* canslimprompt.py says it meets the criteria.
Passes ==
    /\ an.result.kind = "record"
    /\ variant = "canslimprompt" =>
           an.result.Summary.closing = "This stock meets the CANSLIM criteria."

\* C1: in both files a ticker evaluated without exception passes exactly
\* when both growth values are numbers strictly greater than 25.
C1_PassesIffBothAbove25 ==
    (Analyzed /\ ~an.caught) =>
        (Passes <=> (Above25(an.quarterly_growth) /\ Above25(an.annual_growth)))

\* C5, as claimed: analyze_stock returns None exactly when it caught an
\* exception; an evaluation without exception returns a record.
C5_NoneOnlyWhenCaught ==
    Analyzed => (IsNone(an.result) <=> an.caught)

\* canslim.py's screen: a growth value is None or below 25.
ScreenedOut ==
    /\ variant = "canslim"
    /\ \/ IsNone(an.quarterly_growth) \/ Below25(an.quarterly_growth)
       \/ IsNone(an.annual_growth) \/ Below25(an.annual_growth)

\* C5, amended: analyze_stock returns None when it caught an exception
\* and, in canslim.py, when a growth value is None or below 25; in every
\* other case it returns a record (in canslimprompt.py, for every
\* evaluation without exception).
C5_NoneWhenCaughtOrScreenedOut ==
    Analyzed =>
        IF an.caught \/ ScreenedOut THEN IsNone(an.result)
        ELSE an.result.kind = "record"

\* C5 witness: canslim.py, no exception, a quarterly growth below 25 and
\* None returned.
C5_ScreenedOutWithoutException ==
    /\ Analyzed
    /\ variant = "canslim"
    /\ ~an.caught
    /\ Below25(an.quarterly_growth)
    /\ IsNone(an.result)

\* The growth value a summary line is about.
GrowthOfLine(line) ==
    IF line.criterion = "quarterly" THEN an.quarterly_growth
    ELSE an.annual_growth

\* C9: the summary has a line for the quarterly and a line for the annual
\* criterion, each saying whether it passed, and each showing N/A when its
\* growth value is None and the value otherwise.
C9_SummaryShowsNAForNone ==
    (Analyzed /\ variant = "canslimprompt" /\ an.result.kind = "record") =>
        LET lines == an.result.Summary.lines
        IN /\ Len(lines) = 2
           /\ lines[1].criterion = "quarterly" /\ lines[2].criterion = "annual"
           /\ \A i \in 1..2 :
                 LET g == GrowthOfLine(lines[i])
                 IN /\ lines[i].verdict = "Meets" <=> Above25(g)
                    /\ lines[i].shown =
                           IF IsNone(g) THEN Text(NAText)
                           ELSE [kind |-> "repr", num |-> g.num, den |-> g.den]

\* ------------------------------------------------------ properties: main

\* The faults of a ticker: the quote lookup raises, every fetch is
\* exhausted, or a page has no table or no EPS row.
AllFail(script) == \A k \in 1..Len(script) : script[k] \in Failures
LacksEps(pg) == ~pg.has_table \/ EpsRows(pg.rows, 3) = {}
Faulty(t) ==
    \/ t.quote = "raises"
    \/ AllFail(t.qScript) /\ AllFail(t.aScript)
    \/ LacksEps(t.qPage) \/ LacksEps(t.aPage)

\* The report of a run of its own over the list.
RECURSIVE CollectAll(_, _)
CollectAll(list, results) ==
    IF list = <<>> THEN results
    ELSE CollectAll(Tail(list),
                    main_collect(results, analyze_stock("canslim", Head(list))))
ReportOf(list) == report_rows(CollectAll(list, <<>>))

IsPrefix(s, t) == Len(s) <= Len(t) /\ s = SubSeq(t, 1, Len(s))

\* C4: main never aborts; it evaluates the tickers in list order, each
\* once; no faulty ticker is in the report, and the report is the one of
\* the list without its faulty tickers.
C4_FaultyTickersSkippedBatchUnchanged ==
    pc \in {"main_loop", "main_done", "aborted"} =>
        /\ pc # "aborted"
        /\ IsPrefix(evaluated, tickers)
        /\ pc = "main_done" =>
              /\ evaluated = tickers
              /\ \A i \in 1..Len(output), k \in 1..Len(tickers) :
                    Faulty(tickers[k]) => output[i].Ticker # tickers[k].name
              /\ output = ReportOf(SelectSeq(tickers, LAMBDA t : ~Faulty(t)))

\* C4 witness: a list of 3 with a faulty ticker in the middle; the report
\* holds the other two.
C4_PartialBatchReported ==
    /\ pc = "main_done"
    /\ Len(tickers) = 3
    /\ Faulty(tickers[2]) /\ ~Faulty(tickers[1]) /\ ~Faulty(tickers[3])
    /\ Len(output) = 2
    /\ output[1].Ticker = tickers[1].name
    /\ output[2].Ticker = tickers[3].name

============================================================================
